---- MODULE Spec2Model ----
(***************************************************************************)
(* Landscape evolution core of procedural-terrain-rs:                      *)
(*   src/src/lem/stream_tree.rs  StreamTree::construct (phases A, B, C)    *)
(*   src/src/lem/generator.rs    TerrainGenerator (builder and generate)   *)
(*                                                                         *)
(* Numbers.  f64 quantities (lengths, altitudes, response times) are held  *)
(* as integers in units of 1/Scale.  Site areas, edge distances, uplift    *)
(* rates and erodibilities are whole numbers.  Slopes are compared as      *)
(* fractions by cross multiplication, which is the comparison of the       *)
(* quotients the code computes.                                            *)
(*                                                                         *)
(* Options.  None is <<>> and Some(x) is <<x>>.                            *)
(***************************************************************************)
EXTENDS Integers, Sequences, FiniteSets, TLC

\* ---------------------------------------------------------------- bounds
NumSites == 3
MaxDist == 2
MaxElev == 2
MaxOutlets == 2
MaxIter == 2
MaxPasses == 4
Scale == 1000

\* generator.rs:14  DEFAULT_M_EXP = 0.5, in tenths
DEFAULT_M_EXP == 5

Sites == 0 .. (NumSites - 1)
SiteSeq == [k \in 1 .. NumSites |-> k - 1]

None == <<>>
Some(x) == <<x>>
IsSome(o) == o # <<>>
Unwrap(o) == o[1]

RECURSIVE Reverse(_)
Reverse(s) == IF s = <<>> THEN <<>> ELSE Append(Reverse(Tail(s)), Head(s))

\* ------------------------------------------------- external graph (crate)
\* EdgeAttributedUndirectedGraph<Length>: graph[i][j] is the distance of the
\* edge i-j, 0 when there is none.  neighbors_of enumerates in index order.
NeighborsOf(graph, i) == SelectSeq(SiteSeq, LAMBDA j : graph[i][j] > 0)

HasEdge(graph, i, j) == graph[i][j] > 0

\* ------------------------------------------------ RidgeElement ordering
\* impl Ord for RidgeElement: other.evaluate().partial_cmp(&self.evaluate()),
\* so a <= b (cmp(a, b) is Less or Equal) exactly when b.dist <= a.dist.
RidgeLeNatural(a, b) == a.dist <= b.dist

RidgeLe(a, b) == b.dist <= a.dist

\* ------------------------------------------- std BinaryHeap<RidgeElement>
\* The heap is the Vec `data`, position p held at data[p + 1].
RECURSIVE SiftUp(_, _, _, _)
SiftUp(data, x, start, pos) ==
    IF pos > start
    THEN LET parent == (pos - 1) \div 2
         IN IF RidgeLe(x, data[parent + 1])
            THEN [data EXCEPT ![pos + 1] = x]
            ELSE SiftUp([data EXCEPT ![pos + 1] = data[parent + 1]], x, start, parent)
    ELSE [data EXCEPT ![pos + 1] = x]

HeapPush(data, item) == SiftUp(Append(data, item), item, 0, Len(data))

RECURSIVE SiftDownToBottom(_, _, _)
SiftDownToBottom(data, x, pos) ==
    LET end == Len(data)
        child == 2 * pos + 1
    IN IF child + 2 <= end
       THEN LET c == IF RidgeLe(data[child + 1], data[child + 2])
                     THEN child + 1 ELSE child
            IN SiftDownToBottom([data EXCEPT ![pos + 1] = data[c + 1]], x, c)
       ELSE IF child = end - 1
            THEN SiftUp([data EXCEPT ![pos + 1] = data[child + 1]], x, 0, child)
            ELSE SiftUp(data, x, 0, pos)

\* BinaryHeap::pop: take the last slot, swap it with the root, sift the hole
\* to the bottom and back up.  Returns the popped item and the heap left.
HeapPop(data) ==
    LET last == data[Len(data)]
        rest == SubSeq(data, 1, Len(data) - 1)
    IN IF rest = <<>>
       THEN [item |-> last, rest |-> <<>>]
       ELSE [item |-> rest[1], rest |-> SiftDownToBottom(rest, last, 0)]

\* ------------------------------------------------------------ StreamTree
\* create_outlet_table
CreateOutletTable(outlets) ==
    [i \in Sites |-> \E k \in 1 .. Len(outlets) : outlets[k] = i]

\* Phase A, one neighbour: strict > on the slope keeps the first maximum.
SteepestStep(elevations, graph, i, acc, j) ==
    IF elevations[i] > elevations[j]
       /\ (elevations[i] - elevations[j]) * acc.den > acc.num * graph[i][j]
    THEN [num |-> elevations[i] - elevations[j], den |-> graph[i][j], nxt |-> j]
    ELSE acc

RECURSIVE FoldSteepest(_, _, _, _, _)
FoldSteepest(elevations, graph, i, nbrs, acc) ==
    IF nbrs = <<>> THEN acc
    ELSE FoldSteepest(elevations, graph, i, Tail(nbrs),
                      SteepestStep(elevations, graph, i, acc, Head(nbrs)))

InitialNextNoSkip(elevations, graph, is_outlet, i) ==
    FoldSteepest(elevations, graph, i, NeighborsOf(graph, i),
                 [num |-> 0, den |-> 1, nxt |-> i]).nxt

\* Phase A, one site: outlets are skipped.
InitialNext(elevations, graph, is_outlet, i) ==
    IF is_outlet[i] THEN i
    ELSE FoldSteepest(elevations, graph, i, NeighborsOf(graph, i),
                      [num |-> 0, den |-> 1, nxt |-> i]).nxt

ConstructInitialStreamTree(elevations, graph, is_outlet) ==
    [i \in Sites |-> InitialNext(elevations, graph, is_outlet, i)]

\* Phase B: the two walks of find_roots_with_lakes.
RECURSIVE WalkToRoot(_, _, _)
WalkToRoot(subroot, next, iv) ==
    IF subroot[iv] = None /\ iv # next[iv]
    THEN WalkToRoot(subroot, next, next[iv])
    ELSE iv

RECURSIVE MarkPath(_, _, _, _)
MarkPath(subroot, next, iv, ir) ==
    IF subroot[iv] = None /\ iv # next[iv]
    THEN MarkPath([subroot EXCEPT ![iv] = ir], next, next[iv], ir)
    ELSE [subroot EXCEPT ![iv] = ir]

RECURSIVE FindRootsFrom(_, _, _)
FindRootsFrom(acc, next, i) ==
    IF i >= NumSites THEN acc
    ELSE IF acc.subroot[i] # None THEN FindRootsFrom(acc, next, i + 1)
    ELSE LET iv == WalkToRoot(acc.subroot, next, i)
             lake == acc.subroot[iv] = None
             ir == IF lake THEN Some(iv) ELSE acc.subroot[iv]
         IN FindRootsFrom([subroot |-> MarkPath(acc.subroot, next, i, ir),
                           has_lake |-> acc.has_lake \/ lake], next, i + 1)

FindRootsWithLakes(is_outlet, next) ==
    LET r == FindRootsFrom(
                 [subroot |-> [i \in Sites |-> IF is_outlet[i] THEN Some(i) ELSE None],
                  has_lake |-> FALSE], next, 0)
    IN [subroot |-> [i \in Sites |-> Unwrap(r.subroot[i])], has_lake |-> r.has_lake]

\* Phase C, the flow flip from j toward i.
RECURSIVE FlipLoop(_, _, _)
FlipLoop(next, k, nk) ==
    IF next[k] # k
    THEN FlipLoop([next EXCEPT ![k] = nk], next[k], k)
    ELSE [next EXCEPT ![k] = nk]

RECURSIVE FlipLoopNoAttach(_, _, _)
FlipLoopNoAttach(next, k, nk) ==
    IF next[k] # k
    THEN FlipLoopNoAttach([next EXCEPT ![k] = nk], next[k], k)
    ELSE next

FlipFlowNoAttach(next, j, i) == FlipLoopNoAttach(next, j, i)

FlipFlow(next, j, i) == FlipLoop(next, j, i)

\* Phase C, the set-up: every outlet gets its root and a queue entry.
RECURSIVE PushOutlets(_, _)
PushOutlets(heap, outlets) ==
    IF outlets = <<>> THEN heap
    ELSE PushOutlets(HeapPush(heap, [index |-> Head(outlets), dist |-> 0]),
                     Tail(outlets))

InitialRoot(is_outlet) == [i \in Sites |-> IF is_outlet[i] THEN Some(i) ELSE None]

\* Phase C, one neighbour j of the popped site i.
VisitNeighbor(acc, graph, sub, vis, i, j) ==
    IF vis[j] THEN acc
    ELSE LET carve == acc.root[sub[j]] = None
             nx == IF carve THEN FlipFlow(acc.next, j, i) ELSE acc.next
             rt == IF carve THEN [acc.root EXCEPT ![sub[j]] = acc.root[sub[i]]]
                   ELSE acc.root
         IN [next |-> nx, root |-> rt,
             ridgestack |-> HeapPush(acc.ridgestack,
                                     [index |-> j, dist |-> graph[i][j]])]

RECURSIVE FoldNeighbors(_, _, _, _, _, _)
FoldNeighbors(acc, graph, sub, vis, i, nbrs) ==
    IF nbrs = <<>> THEN acc
    ELSE FoldNeighbors(VisitNeighbor(acc, graph, sub, vis, i, Head(nbrs)),
                       graph, sub, vis, i, Tail(nbrs))

\* ---------------------------------------------------------- DrainageBasin
\* lem/drainage_basin.rs: the basin of an outlet in upstream order (a site
\* after its downstream target), breadth first over the inverse of `next`.
BasinChildren(next, k) == SelectSeq(SiteSeq, LAMBDA j : j # k /\ next[j] = k)

RECURSIVE BasinFrom(_, _, _)
BasinFrom(next, order, idx) ==
    IF idx > Len(order) THEN order
    ELSE BasinFrom(next, order \o BasinChildren(next, order[idx]), idx + 1)

UpstreamOrder(next, outlet) == BasinFrom(next, <<outlet>>, 1)

DownstreamOrder(next, outlet) == Reverse(UpstreamOrder(next, outlet))

\* ------------------------------------------------------------- arithmetic
RECURSIVE ISqrtBetween(_, _, _)
ISqrtBetween(x, lo, hi) ==
    IF lo >= hi THEN lo
    ELSE LET mid == (lo + hi + 1) \div 2
         IN IF mid * mid <= x THEN ISqrtBetween(x, mid, hi)
            ELSE ISqrtBetween(x, lo, mid - 1)

\* area.powf(m_exp), in units of 1/Scale; m_exp is given in tenths.
Powf(area, m_exp) ==
    CASE m_exp = 5 -> ISqrtBetween(area * Scale * Scale, 0, area * Scale)
      [] m_exp = 10 -> area * Scale

\* max_slope.tan() for an angle in degrees within [0, 90), in units of 1/Scale.
Tan(angle) == CASE angle = 0 -> 0 [] angle = 45 -> Scale

\* ------------------------------------------------- generate, basin passes
DownstreamPassNoAccumulate(da, next, order) == da

\* for_each_downstream body: drainage_areas[j] += drainage_areas[i].
RECURSIVE DownstreamPass(_, _, _)
DownstreamPass(da, next, order) ==
    IF order = <<>> THEN da
    ELSE LET i == Head(order)
             j == next[i]
         IN DownstreamPass(IF j # i THEN [da EXCEPT ![j] = da[j] + da[i]] ELSE da,
                           next, Tail(order))

\* 1.0 / celerity * distance, with has_edge's fallback distance 0.0.
ResponseTerm(graph, attributes, m_exp, da, i, j) ==
    LET distance == IF HasEdge(graph, i, j) THEN graph[i][j] ELSE 0
        celerity == attributes[i + 1].erodibility * Powf(da[i], m_exp)
    IN ((Scale * Scale) \div celerity) * distance

\* response_times[i] += response_times[j] + 1.0 / celerity * distance
ResponseUpdate(rt, graph, attributes, m_exp, da, next, i) ==
    [rt EXCEPT ![i] = rt[i] + rt[next[i]]
                      + ResponseTerm(graph, attributes, m_exp, da, i, next[i])]

RECURSIVE ResponsePass(_, _, _, _, _, _, _)
ResponsePass(rt, graph, attributes, m_exp, da, next, order) ==
    IF order = <<>> THEN rt
    ELSE ResponsePass(ResponseUpdate(rt, graph, attributes, m_exp, da, next, Head(order)),
                      graph, attributes, m_exp, da, next, Tail(order))

Max0(x) == IF x > 0 THEN x ELSE 0

NewAltitudeFlippedClamp(alt, graph, attributes, rt, next, outlet, i) ==
    LET j == next[i]
        distance == IF HasEdge(graph, i, j) THEN graph[i][j] ELSE 1
        raw == alt[outlet] + attributes[i + 1].uplift_rate * Max0(rt[i] - rt[outlet])
    IN IF attributes[i + 1].max_slope # None
          /\ raw - alt[j] < Tan(Unwrap(attributes[i + 1].max_slope)) * distance
       THEN alt[j] + Tan(Unwrap(attributes[i + 1].max_slope)) * distance
       ELSE raw

\* new_altitude of site i in the basin of `outlet`, with the max_slope clamp
\* (has_edge's fallback distance is 1.0 here).
NewAltitude(alt, graph, attributes, rt, next, outlet, i) ==
    LET j == next[i]
        distance == IF HasEdge(graph, i, j) THEN graph[i][j] ELSE 1
        raw == alt[outlet] + attributes[i + 1].uplift_rate * Max0(rt[i] - rt[outlet])
    IN IF attributes[i + 1].max_slope # None
          /\ raw - alt[j] > Tan(Unwrap(attributes[i + 1].max_slope)) * distance
       THEN alt[j] + Tan(Unwrap(attributes[i + 1].max_slope)) * distance
       ELSE raw

RECURSIVE AltitudePass(_, _, _, _, _, _, _)
AltitudePass(acc, graph, attributes, rt, next, outlet, order) ==
    IF order = <<>> THEN acc
    ELSE LET i == Head(order)
             new == NewAltitude(acc.altitudes, graph, attributes, rt, next, outlet, i)
         IN AltitudePass([altitudes |-> [acc.altitudes EXCEPT ![i] = new],
                          changed |-> acc.changed \/ new # acc.altitudes[i]],
                         graph, attributes, rt, next, outlet, Tail(order))

\* outlets.iter().for_each(|&outlet| ...): the three passes of each basin.
RECURSIVE ForEachOutlet(_, _, _, _, _, _)
ForEachOutlet(acc, graph, attributes, m_exp, next, outlets) ==
    IF outlets = <<>> THEN acc
    ELSE LET outlet == Head(outlets)
             up == UpstreamOrder(next, outlet)
             da == DownstreamPass(acc.drainage_areas, next, DownstreamOrder(next, outlet))
             rt == ResponsePass(acc.response_times, graph, attributes, m_exp, da, next, up)
             al == AltitudePass([altitudes |-> acc.altitudes, changed |-> acc.changed],
                                graph, attributes, rt, next, outlet, up)
         IN ForEachOutlet([drainage_areas |-> da, response_times |-> rt,
                           altitudes |-> al.altitudes, changed |-> al.changed],
                          graph, attributes, m_exp, next, Tail(outlets))

\* ------------------------------------------------------------------ state
VARIABLES
    env,             \* what the caller passes to the setters (None: never called)
    self,            \* TerrainGenerator: model, attributes, max_iteration, m_exp
    pc,              \* "config", "loop", "ridge", "basins", "done"
    result,          \* "none", "ok", "err_model", "err_attributes", "err_length"
    terrain,         \* argument of create_terrain_from_result, once called
    altitudes, step, changed,
    next, subroot, root, visited, ridgestack,
    drainage_areas, response_times,
    passes,          \* history: loop bodies begun by generate
    last_pop         \* history: the last element popped and the heap it left

vars == <<env, self, pc, result, terrain, altitudes, step, changed, next, subroot,
          root, visited, ridgestack, drainage_areas, response_times, passes, last_pop>>

treeVars == <<next, subroot, root, visited, ridgestack, last_pop>>
passVars == <<altitudes, step, changed, drainage_areas, response_times, passes>>

\* ------------------------------------------------------- inputs (bounded)
Pairs == {p \in Sites \X Sites : p[1] < p[2]}

GraphOf(w) ==
    [i \in Sites |-> [j \in Sites |->
        IF i = j THEN 0 ELSE IF i < j THEN w[<<i, j>>] ELSE w[<<j, i>>]]]

Graphs == {GraphOf(w) : w \in [Pairs -> 0 .. MaxDist]}

OutletLists == UNION {[1 .. n -> Sites] : n \in 0 .. MaxOutlets}

UnitAreas == [i \in Sites |-> 1]

Attributes(uplift, base, slope) ==
    [k \in 1 .. NumSites |->
        [uplift_rate |-> uplift[k - 1], erodibility |-> 1,
         base_altitude |-> base[k - 1] * Scale, max_slope |-> slope[k - 1]]]

NoSlope == [i \in Sites |-> None]
Zeros == [i \in Sites |-> 0]

ModelOf(g, o) == [num |-> NumSites, areas |-> UnitAreas, graph |-> g, outlets |-> o]

\* Stream-tree family: every graph, outlet list and initial elevation vector.
TreeEnvs ==
    {[model |-> Some(ModelOf(g, o)), attributes |-> Some(Attributes(Zeros, b, NoSlope)),
      max_iteration |-> None, m_exp |-> None] :
        g \in Graphs, o \in OutletLists, b \in [Sites -> 0 .. MaxElev]}

\* Calls of the optional setters and incomplete configurations.
LineGraph == GraphOf([p \in Pairs |-> IF p[2] = p[1] + 1 THEN 1 ELSE 0])

OptionEnvs ==
    {[model |-> m, attributes |-> a, max_iteration |-> k, m_exp |-> x] :
        m \in {None, Some(ModelOf(LineGraph, <<0>>))},
        a \in {None} \cup {Some(Attributes(u, Zeros, NoSlope)) : u \in [Sites -> {0, 1}]}
              \cup {Some(SubSeq(Attributes(Zeros, Zeros, NoSlope), 1, NumSites - 1))},
        k \in {None} \cup {Some(n) : n \in 0 .. MaxIter},
        x \in {None, Some(5), Some(10)}}

\* Generator family: every graph and outlet list under every uplift pattern.
GenEnvs ==
    {[model |-> Some(ModelOf(g, o)), attributes |-> Some(Attributes(u, Zeros, NoSlope)),
      max_iteration |-> None, m_exp |-> None] :
        g \in Graphs, o \in OutletLists, u \in [Sites -> {0, 1}]}

\* Slope family: base altitudes and max_slope on any site, outlets included.
SlopeChoices ==
    {NoSlope} \cup {[i \in Sites |-> Some(a)] : a \in {0, 45}}
    \cup {[i \in Sites |-> IF i = s THEN Some(a) ELSE None] : s \in Sites, a \in {0, 45}}

SlopeEnvs ==
    {[model |-> Some(ModelOf(g, o)),
      attributes |-> Some(Attributes([i \in Sites |-> 1], b, sl)),
      max_iteration |-> None, m_exp |-> None] :
        g \in Graphs, o \in OutletLists \ {<<>>}, b \in [Sites -> {0, 1}],
        sl \in SlopeChoices}

\* ------------------------------------------------------------------- Init
\* TerrainGenerator::default(): every field None; nothing computed yet.
Default ==
    /\ self = [model |-> None, attributes |-> None, max_iteration |-> None, m_exp |-> None]
    /\ pc = "config"
    /\ result = "none"
    /\ terrain = None
    /\ altitudes = <<>> /\ step = 0 /\ changed = FALSE
    /\ next = <<>> /\ subroot = <<>> /\ root = <<>> /\ visited = <<>>
    /\ ridgestack = <<>>
    /\ drainage_areas = <<>> /\ response_times = <<>>
    /\ passes = 0
    /\ last_pop = None

InitTree == env \in TreeEnvs \cup OptionEnvs /\ Default
InitGen == env \in GenEnvs \cup OptionEnvs /\ Default
InitSlope == env \in SlopeEnvs \cup OptionEnvs /\ Default

\* ---------------------------------------------------------------- builder
SetModel ==
    /\ pc = "config" /\ env.model # None /\ self.model = None
    /\ self' = [self EXCEPT !.model = env.model]
    /\ UNCHANGED <<env, pc, result, terrain, treeVars, passVars>>

SetAttributes ==
    /\ pc = "config" /\ env.attributes # None /\ self.attributes = None
    /\ self' = [self EXCEPT !.attributes = env.attributes]
    /\ UNCHANGED <<env, pc, result, terrain, treeVars, passVars>>

SetMaxIteration ==
    /\ pc = "config" /\ env.max_iteration # None /\ self.max_iteration = None
    /\ self' = [self EXCEPT !.max_iteration = env.max_iteration]
    /\ UNCHANGED <<env, pc, result, terrain, treeVars, passVars>>

SetExponentM ==
    /\ pc = "config" /\ env.m_exp # None /\ self.m_exp = None
    /\ self' = [self EXCEPT !.m_exp = env.m_exp]
    /\ UNCHANGED <<env, pc, result, terrain, treeVars, passVars>>

\* The caller invokes generate once it has made the setter calls it intends.
CallerReady == self = env

\* --------------------------------------------------------------- generate
Model == Unwrap(self.model)
Attrs == Unwrap(self.attributes)
MExp == IF self.m_exp # None THEN Unwrap(self.m_exp) ELSE DEFAULT_M_EXP

ValidationNoLength(s) ==
    IF s.model = None THEN "err_model"
    ELSE IF s.attributes = None THEN "err_attributes"
    ELSE "valid"

\* generate, lines 93-142: validation, then the initial altitudes.
ValidationOutcome(s) ==
    IF s.model = None THEN "err_model"
    ELSE IF s.attributes = None THEN "err_attributes"
    ELSE IF Len(Unwrap(s.attributes)) # Unwrap(s.model).num THEN "err_length"
    ELSE "valid"

Generate ==
    /\ pc = "config" /\ CallerReady
    /\ IF ValidationOutcome(self) # "valid"
       THEN /\ result' = ValidationOutcome(self)
            /\ pc' = "done"
            /\ UNCHANGED <<altitudes, step>>
       ELSE /\ altitudes' = [i \in 0 .. (Len(Attrs) - 1) |-> Attrs[i + 1].base_altitude]
            /\ step' = 0
            /\ pc' = "loop"
            /\ UNCHANGED result
    /\ UNCHANGED <<env, self, terrain, changed, treeVars, drainage_areas,
                   response_times, passes>>

\* StreamTree::construct up to the first pop of Phase C.
Construct ==
    /\ pc = "loop" /\ passes < MaxPasses
    /\ LET is_outlet == CreateOutletTable(Model.outlets)
           nx == ConstructInitialStreamTree(altitudes, Model.graph, is_outlet)
           fr == FindRootsWithLakes(is_outlet, nx)
       IN /\ next' = nx
          /\ subroot' = fr.subroot
          /\ IF fr.has_lake
             THEN /\ root' = InitialRoot(is_outlet)
                  /\ ridgestack' = PushOutlets(<<>>, Model.outlets)
                  /\ visited' = [i \in Sites |-> FALSE]
                  /\ pc' = "ridge"
             ELSE /\ UNCHANGED <<root, ridgestack, visited>>
                  /\ pc' = "basins"
    /\ passes' = passes + 1
    /\ last_pop' = None
    /\ UNCHANGED <<env, self, result, terrain, altitudes, step, changed,
                   drainage_areas, response_times>>

\* One iteration of `while let Some(element) = ridgestack.pop()`.
RidgePop ==
    /\ pc = "ridge" /\ ridgestack # <<>>
    /\ LET p == HeapPop(ridgestack)
           i == p.item.index
       IN /\ last_pop' = Some(p)
          /\ IF visited[i]
             THEN /\ ridgestack' = p.rest
                  /\ UNCHANGED <<next, root, visited>>
             ELSE LET acc == FoldNeighbors(
                                 [next |-> next, root |-> root, ridgestack |-> p.rest],
                                 Model.graph, subroot, visited, i,
                                 NeighborsOf(Model.graph, i))
                  IN /\ next' = acc.next
                     /\ ridgestack' = acc.ridgestack
                     /\ root' = [acc.root EXCEPT ![i] = acc.root[subroot[i]]]
                     /\ visited' = [visited EXCEPT ![i] = TRUE]
    /\ UNCHANGED <<env, self, pc, result, terrain, subroot, passVars>>

\* The pop that returns None ends Phase C.
RidgeExit ==
    /\ pc = "ridge" /\ ridgestack = <<>>
    /\ pc' = "basins"
    /\ UNCHANGED <<env, self, result, terrain, treeVars, passVars>>

StopAfter(ch, st, max_iteration) ==
    \/ ~ch
    \/ max_iteration # None /\ st + 1 >= Unwrap(max_iteration)

\* The rest of the loop body: the basin passes of every outlet, then the
\* convergence test and the iteration cap.
EvolveBasins ==
    /\ pc = "basins"
    /\ LET acc == ForEachOutlet(
                      [drainage_areas |-> Model.areas,
                       response_times |-> [i \in Sites |-> 0],
                       altitudes |-> altitudes, changed |-> FALSE],
                      Model.graph, Attrs, MExp, next, Model.outlets)
       IN /\ drainage_areas' = acc.drainage_areas
          /\ response_times' = acc.response_times
          /\ altitudes' = acc.altitudes
          /\ changed' = acc.changed
          /\ step' = IF acc.changed THEN step + 1 ELSE step
          /\ IF StopAfter(acc.changed, step, self.max_iteration)
             THEN /\ pc' = "done"
                  /\ result' = "ok"
                  /\ terrain' = Some(acc.altitudes)
             ELSE /\ pc' = "loop"
                  /\ UNCHANGED <<result, terrain>>
    /\ UNCHANGED <<env, self, treeVars, passes>>

Next ==
    \/ SetModel \/ SetAttributes \/ SetMaxIteration \/ SetExponentM
    \/ Generate \/ Construct \/ RidgePop \/ RidgeExit \/ EvolveBasins

SpecTree == InitTree /\ [][Next]_vars
Spec == InitGen /\ [][Next]_vars
SpecSlope == InitSlope /\ [][Next]_vars

\* ----------------------------------------------------- claim vocabulary
IsOutlet(i) == \E k \in 1 .. Len(Model.outlets) : Model.outlets[k] = i

RECURSIVE Follow(_, _, _)
Follow(nx, i, n) == IF n = 0 THEN i ELSE Follow(nx, nx[i], n - 1)

RECURSIVE GraphReach(_, _)
GraphReach(graph, seen) ==
    LET more == seen \cup {j \in Sites : \E i \in seen : graph[i][j] > 0}
    IN IF more = seen THEN seen ELSE GraphReach(graph, more)

Connected(graph) == GraphReach(graph, {0}) = Sites

Configured == self.model # None /\ self.attributes # None
                /\ Len(Unwrap(self.attributes)) = Unwrap(self.model).num

\* The stream tree of the current iteration is complete.
TreeBuilt == pc = "basins"

\* The basin passes of the current iteration are complete.
PassDone == passes > 0 /\ pc \in {"loop", "done"}

BasinOf(nx, o) == {i \in Sites : Follow(nx, i, NumSites) = o}

RECURSIVE SumAreas(_, _)
SumAreas(areas, S) ==
    IF S = {} THEN 0
    ELSE LET i == CHOOSE x \in S : TRUE IN areas[i] + SumAreas(areas, S \ {i})

\* ------------------------------------------------------------------ claims

\* C1: for a connected graph and a non-empty outlet list, following `next`
\* of the constructed stream tree from any site reaches an outlet within
\* NumSites steps (no cycle but the outlets' self-loops).
C1_ReachesOutlet ==
    (TreeBuilt /\ Connected(Model.graph) /\ Model.outlets # <<>>)
    => \A i \in Sites : \E n \in 0 .. NumSites : IsOutlet(Follow(next, i, n))

\* C1 witness: a tree completed by Phase C in which a lake was carved (some
\* site no longer points where Phase A left it).
C1_Witness ==
    /\ TreeBuilt /\ Connected(Model.graph) /\ Model.outlets # <<>>
    /\ last_pop # None
    /\ \E i \in Sites :
          next[i] # InitialNext(altitudes, Model.graph,
                                CreateOutletTable(Model.outlets), i)
    /\ \E i \in Sites : ~IsOutlet(i) /\ ~IsOutlet(next[i])

\* C2: generate called without a model, without attributes, or with an
\* attribute vector whose length differs from the site count ends in a
\* configuration error, with no loop body begun, no altitude computed and
\* create_terrain_from_result never called.
C2_ConfigurationError ==
    (pc # "config"
       /\ (\/ self.model = None
           \/ self.attributes = None
           \/ Len(Unwrap(self.attributes)) # Unwrap(self.model).num))
    => /\ pc = "done"
       /\ result \in {"err_model", "err_attributes", "err_length"}
       /\ passes = 0 /\ altitudes = <<>> /\ next = <<>> /\ terrain = None

\* C2 witness: generate has returned the length-mismatch error for an
\* attribute vector of length N - 1.
C2_Witness ==
    /\ pc = "done" /\ result = "err_length"
    /\ self.model # None /\ self.attributes # None
    /\ Len(Unwrap(self.attributes)) = Unwrap(self.model).num - 1

\* C3 (the claim as stated): when some site is unreachable from every outlet,
\* generate does not return Ok.
C3_IllFormedIsError ==
    (pc = "done" /\ Configured
       /\ \E i \in Sites : \A k \in 1 .. Len(Model.outlets) :
              i \notin GraphReach(Model.graph, {Model.outlets[k]}))
    => result # "ok"

\* C4 (the claim as stated): with max_iteration = K, generate has run at most
\* K loop bodies when it returns.
C4_AtMostKPasses ==
    (pc = "done" /\ Configured /\ self.max_iteration # None)
    => passes <= Unwrap(self.max_iteration)

\* C5 (the claim as stated): after the basin passes of an iteration, the
\* drainage area of every outlet is the sum of the areas of its basin.
C5_OutletDrainsBasin ==
    PassDone =>
        \A k \in 1 .. Len(Model.outlets) :
            drainage_areas[Model.outlets[k]]
                = SumAreas(Model.areas, BasinOf(next, Model.outlets[k]))

\* C6: for a connected graph and a non-empty outlet list, in the constructed
\* stream tree next[o] = o holds exactly for the outlets.
C6_SelfLoopIffOutlet ==
    (TreeBuilt /\ Connected(Model.graph) /\ Model.outlets # <<>>)
    => \A o \in Sites : (next[o] = o) <=> IsOutlet(o)

\* C6 witness: a tree completed by Phase C for an input in which an outlet
\* has a strictly lower neighbour (Phase A would redirect it were it not
\* skipped) and a lake bottom was a non-outlet self-loop.
C6_Witness ==
    /\ TreeBuilt /\ Connected(Model.graph) /\ Model.outlets # <<>>
    /\ last_pop # None
    /\ \E o \in Sites, j \in Sites :
          IsOutlet(o) /\ Model.graph[o][j] > 0 /\ altitudes[j] < altitudes[o]
    /\ \E i \in Sites : ~IsOutlet(i) /\ subroot[i] = i

\* The line of three sites of the spec's scenario 2.
LineOfThree ==
    /\ NumSites = 3
    /\ self.model = Some(ModelOf(LineGraph, <<0>>))
    /\ self.attributes
         = Some(Attributes([i \in Sites |-> IF i = 0 THEN 0 ELSE 1], Zeros, NoSlope))
    /\ self.max_iteration = None
    /\ MExp = 5

\* 1 / sqrt(a), in units of 1/Scale
InvSqrt(a) == (Scale * Scale) \div Powf(a, 5)

\* C7 (the claim as stated): the line of three converges to
\* elevation[1] = 1/sqrt(1) and elevation[2] = 1/sqrt(1) + 1/sqrt(2).
C7_LineAsStated ==
    (LineOfThree /\ pc = "done")
    => /\ result = "ok"
       /\ next = (0 :> 0 @@ 1 :> 0 @@ 2 :> 1)
       /\ altitudes[1] = InvSqrt(1)
       /\ altitudes[2] = InvSqrt(1) + InvSqrt(2)

\* C7 (amended): the line of three converges with next = [0, 0, 1],
\* elevation[1] = 1/sqrt(2) (site 1 drains itself and site 2: area 2) and
\* elevation[2] = 1/sqrt(2) + 1/sqrt(1) (site 2 drains area 1).
C7_LineAmended ==
    (LineOfThree /\ pc = "done")
    => /\ result = "ok"
       /\ next = (0 :> 0 @@ 1 :> 0 @@ 2 :> 1)
       /\ altitudes[0] = 0
       /\ altitudes[1] = InvSqrt(2)
       /\ altitudes[2] = InvSqrt(2) + InvSqrt(1)
       /\ drainage_areas = (0 :> 3 @@ 1 :> 2 @@ 2 :> 1)

\* C7 witness: generate has returned for the line of three.
C7_Witness == LineOfThree /\ pc = "done" /\ terrain # None

C10_ResponseRecurrence ==
    PassDone =>
        \A k \in 1 .. Len(Model.outlets) :
            LET o == Model.outlets[k]
            IN /\ response_times[o] = 0
               /\ \A i \in BasinOf(next, o) \ {o} :
                     response_times[i]
                        = response_times[next[i]]
                          + ResponseTerm(Model.graph, Attrs, MExp, drainage_areas,
                                         i, next[i])

====
